---- MODULE Spec2Model ----
(***************************************************************************)
(* Model of src/main.py: the invoice pipeline process_pdfs (download,      *)
(* direct text extraction, OCR fallback, field parsing, row building, CSV  *)
(* output) and its pure helpers parse_info and build_csv_row.              *)
(*                                                                         *)
(* A text is a sequence of one-character strings.  The character "W"       *)
(* stands for a decimal digit outside ASCII (a full-width digit), which    *)
(* Python's \d accepts in a str pattern and [0-9] does not.                *)
(***************************************************************************)
EXTENDS Integers, Sequences, FiniteSets, TLC

(***************************************************************************)
(* Bounds of the model.                                                    *)
(***************************************************************************)
MaxDocs == 3
MaxPages == 2
MaxTokens == 3

(***************************************************************************)
(* Characters.                                                             *)
(***************************************************************************)
AsciiDigits == {"0", "1", "2", "3", "4", "5", "6", "7", "8", "9"}

UnicodeDigits == AsciiDigits \cup {"W"}

LineBreaks == {"\n"}

Whitespace == {" ", "\t", "\n"}

DateSeparators == {"/", "-"}

(***************************************************************************)
(* CSV_COLUMNS, src/main.py lines 23-34.  The source labels are Japanese;  *)
(* each is rendered here by an ASCII name, in the source's order.  The     *)
(* three labels that build_csv_row's comments name are month_day (line 24, *)
(* first label), debit_amount (line 27, first label) and partner_name      *)
(* (line 31, first label); partner_code is the last label of line 30.      *)
(***************************************************************************)
CSV_COLUMNS ==
    << "month_day", "slip_no", "voucher_no", "debit_account_code",
       "debit_account_name", "debit_sub_code",
       "debit_holder_name", "debit_dept_code", "debit_dept_name",
       "debit_tax_class", "debit_business_class",
       "debit_tax_auto", "debit_reduced_rate", "debit_tax_rate",
       "debit_deduction_ratio",
       "debit_amount", "debit_tax", "debit_net_amount",
       "credit_account_code", "credit_account_name",
       "credit_sub_code", "credit_holder_name", "credit_dept_code",
       "credit_dept_name", "credit_tax_class",
       "credit_business_class", "credit_tax_auto", "credit_reduced_rate",
       "credit_tax_rate",
       "credit_deduction_ratio", "credit_amount", "credit_tax",
       "credit_net_amount", "partner_code",
       "partner_name", "partner_registration_no", "ledger_summary",
       "purchase_date_display_class",
       "purchase_date_1", "purchase_date_2", "balance_class_code",
       "balance_class_name",
       "breakdown_class_code", "breakdown_class_name" >>

\* The labels written as comments beside the three assignments of
\* build_csv_row (lines 109-111).
DateLabel == "month_day"
AmountLabel == "debit_amount"
PartnerLabel == "partner_name"

\* The 0-based index of a label in the schema, as Python's list.index.
ColumnIndex(label) ==
    (CHOOSE i \in 1..Len(CSV_COLUMNS) : CSV_COLUMNS[i] = label) - 1

\* row[i] with Python's 0-based index.
Cell(row, i) == row[i + 1]

(***************************************************************************)
(* String helpers.                                                         *)
(***************************************************************************)
\* str.replace(old, new) for one-character old and new.
str_replace(s, old, new) ==
    [k \in 1..Len(s) |-> IF s[k] = old THEN new ELSE s[k]]

\* str.replace(old, '') for a one-character old.
RECURSIVE str_remove(_, _)
str_remove(s, old) ==
    IF s = << >> THEN << >>
    ELSE IF Head(s) = old THEN str_remove(Tail(s), old)
    ELSE << Head(s) >> \o str_remove(Tail(s), old)

RECURSIVE str_lstrip(_)
str_lstrip(s) ==
    IF s # << >> /\ Head(s) \in Whitespace THEN str_lstrip(Tail(s)) ELSE s

RECURSIVE str_rstrip(_)
str_rstrip(s) ==
    IF s # << >> /\ s[Len(s)] \in Whitespace
    THEN str_rstrip(SubSeq(s, 1, Len(s) - 1))
    ELSE s

\* str.strip()
str_strip(s) == str_rstrip(str_lstrip(s))

\* str.splitlines(): the text cut at its line breaks; a trailing line break
\* opens no further line.
RECURSIVE str_splitlines(_)
str_splitlines(s) ==
    IF s = << >> THEN << >>
    ELSE IF \E k \in 1..Len(s) : s[k] \in LineBreaks
    THEN LET k == CHOOSE j \in 1..Len(s) :
                      /\ s[j] \in LineBreaks
                      /\ \A h \in 1..(j - 1) : s[h] \notin LineBreaks
         IN  << SubSeq(s, 1, k - 1) >> \o str_splitlines(SubSeq(s, k + 1, Len(s)))
    ELSE << s >>

(***************************************************************************)
(* re.search(r'\d{4}[/-]\d{1,2}[/-]\d{1,2}', text), line 93.               *)
(***************************************************************************)
IsDigitAt(t, k) == k >= 1 /\ k <= Len(t) /\ t[k] \in UnicodeDigits

IsSepAt(t, k) == k >= 1 /\ k <= Len(t) /\ t[k] \in DateSeparators

\* [/-]\d{1,2} from position p, greedy: the last position matched, 0 if none.
DateTail(t, p) ==
    IF IsSepAt(t, p) /\ IsDigitAt(t, p + 1)
    THEN IF IsDigitAt(t, p + 2) THEN p + 2 ELSE p + 1
    ELSE 0

\* The match that starts at i: its last position, 0 if none.  \d{1,2} first
\* tries two digits and backtracks to one.
DateMatchEnd(t, i) ==
    IF /\ \A k \in i..(i + 3) : IsDigitAt(t, k)
       /\ IsSepAt(t, i + 4)
       /\ IsDigitAt(t, i + 5)
    THEN IF IsDigitAt(t, i + 6) /\ DateTail(t, i + 7) # 0
         THEN DateTail(t, i + 7)
         ELSE DateTail(t, i + 6)
    ELSE 0

\* The match object: matched is FALSE for None.
date_search(t) ==
    IF \E i \in 1..Len(t) : DateMatchEnd(t, i) # 0
    THEN LET i == CHOOSE j \in 1..Len(t) :
                      /\ DateMatchEnd(t, j) # 0
                      /\ \A h \in 1..(j - 1) : DateMatchEnd(t, h) = 0
         IN  [matched |-> TRUE, group |-> SubSeq(t, i, DateMatchEnd(t, i))]
    ELSE [matched |-> FALSE, group |-> << >>]

(***************************************************************************)
(* re.search(r'[0-9]{1,3}(?:,[0-9]{3})*', text), line 94.                  *)
(***************************************************************************)
IsAsciiDigitAt(t, k) == k >= 1 /\ k <= Len(t) /\ t[k] \in AsciiDigits

\* (?:,[0-9]{3})* after position e, greedy: the last position matched.
RECURSIVE AmountGroups(_, _)
AmountGroups(t, e) ==
    IF /\ e + 1 <= Len(t)
       /\ t[e + 1] = ","
       /\ \A k \in (e + 2)..(e + 4) : IsAsciiDigitAt(t, k)
    THEN AmountGroups(t, e + 4)
    ELSE e

\* The match that starts at i: its last position, 0 if none.
AmountMatchEnd(t, i) ==
    IF IsAsciiDigitAt(t, i)
    THEN LET lead == IF IsAsciiDigitAt(t, i + 1)
                     THEN IF IsAsciiDigitAt(t, i + 2) THEN i + 2 ELSE i + 1
                     ELSE i
         IN  AmountGroups(t, lead)
    ELSE 0

amount_search(t) ==
    IF \E i \in 1..Len(t) : AmountMatchEnd(t, i) # 0
    THEN LET i == CHOOSE j \in 1..Len(t) :
                      /\ AmountMatchEnd(t, j) # 0
                      /\ \A h \in 1..(j - 1) : AmountMatchEnd(t, h) = 0
         IN  [matched |-> TRUE, group |-> SubSeq(t, i, AmountMatchEnd(t, i))]
    ELSE [matched |-> FALSE, group |-> << >>]

(***************************************************************************)
(* parse_info, lines 91-104.                                               *)
(***************************************************************************)
\* Lines 96-101: the first line that is not empty once stripped, stripped.
RECURSIVE FirstNonEmptyLine(_)
FirstNonEmptyLine(lines) ==
    IF lines = << >> THEN << >>
    ELSE IF str_strip(Head(lines)) # << >> THEN str_strip(Head(lines))
    ELSE FirstNonEmptyLine(Tail(lines))

\* Variant: the first line that is not empty, taken without stripping.
RECURSIVE FirstRawLine(_)
FirstRawLine(lines) ==
    IF lines = << >> THEN << >>
    ELSE IF Head(lines) # << >> THEN Head(lines)
    ELSE FirstRawLine(Tail(lines))

partner_name_unstripped(text) == FirstRawLine(str_splitlines(text))

partner_name(text) == FirstNonEmptyLine(str_splitlines(text))

\* Line 102.
parsed_date(text) ==
    IF date_search(text).matched THEN date_search(text).group ELSE << >>

\* Variant: the match is stored with its commas.
parsed_amount_with_commas(text) ==
    IF amount_search(text).matched THEN amount_search(text).group ELSE << >>

\* Line 103.
parsed_amount(text) ==
    IF amount_search(text).matched
    THEN str_remove(amount_search(text).group, ",")
    ELSE << >>

parse_info(text) ==
    << parsed_date(text), parsed_amount(text), partner_name(text) >>

(***************************************************************************)
(* build_csv_row, lines 106-112.                                           *)
(***************************************************************************)
\* Variant: the date is stored as matched.
date_cell_as_matched(date) == date

\* Line 109.
date_cell(date) == IF date # << >> THEN str_replace(date, "-", "/") ELSE << >>

build_csv_row(date, amount, partner) ==
    [k \in 1..Len(CSV_COLUMNS) |->
        IF k - 1 = 33 THEN partner
        ELSE IF k - 1 = 15 THEN amount
        ELSE IF k - 1 = 0 THEN date_cell(date)
        ELSE << >>]

(***************************************************************************)
(* The libraries process_pdfs calls, as the environment sees them.  A pdf  *)
(* is the downloaded document: pages[k] is what page k's extract_text()    *)
(* returns (<< >> for None or ''), failAt is where pdfplumber raises: 0 on *)
(* open, k on page k, -1 never.                                            *)
(***************************************************************************)
PageTexts == {<< >>, << " " >>, << "A" >>}

\* What pytesseract.image_to_string may return for one image.
OcrTexts == {<< >>, << "7" >>}

PageSeqs == UNION {[1..n -> PageTexts] : n \in 0..MaxPages}

Pdfs == UNION {{[pages |-> p, failAt |-> f] : f \in (-1)..Len(p)} : p \in PageSeqs}

NoPdf == [pages |-> << >>, failAt |-> -1]

(***************************************************************************)
(* extract_text_from_pdf, lines 59-70.                                     *)
(***************************************************************************)
\* The loop of lines 64-67 from page k on, left by the except of line 68
\* when page k raises.
RECURSIVE ExtractLoop(_, _, _)
ExtractLoop(pdf, k, text) ==
    IF k > Len(pdf.pages) THEN text
    ELSE IF pdf.failAt = k THEN text
    ELSE LET page_text == pdf.pages[k]
         IN  ExtractLoop(pdf, k + 1,
                         IF page_text # << >>
                         THEN text \o page_text \o << "\n" >>
                         ELSE text)

extract_text_from_pdf(pdf) ==
    IF pdf.failAt = 0 THEN << >> ELSE ExtractLoop(pdf, 1, << >>)

\* Variant: the OCR branch is taken whatever the text.
needs_ocr_always(text) == TRUE

\* Line 124: not text.strip()
needs_ocr(text) == str_strip(text) = << >>

\* pdf_to_images, lines 72-82, when convert_from_path succeeds: one
\* processed image per page, in page order; an image is named by its page.
pdf_to_images(pdf) == [k \in 1..Len(pdf.pages) |-> k]

\* Variant: the row is put right after the first row instead of last.
writerow_after_first(out, r) ==
    IF out = << >> THEN << r >> ELSE << Head(out), r >> \o Tail(out)

\* csv.writer.writerow: the row is appended to the file.
writerow(out, r) == Append(out, r)

(***************************************************************************)
(* State.                                                                  *)
(***************************************************************************)
VARIABLES
    pc,          \* position in process_pdfs
    files,       \* the listing, line 116: the file ids in listing order
    idx,         \* the position in files of the document being processed
    output,      \* the rows of output.csv, header first
    tmpFiles,    \* the temporary files that exist, named by document
    pdf,         \* the downloaded document
    text,        \* process_pdfs's local text
    images,      \* process_pdfs's local images
    ocrText,     \* ocr_images's local text
    rasterCalls, \* calls of pdf_to_images for the current document
    ocrCalls,    \* pages handed to image_to_string for the current document
    parsed,      \* per written document: its id and the tuple of line 127
    raisedIn,    \* the call whose exception left process_pdfs
    fpc,         \* position of the run of parse_info and build_csv_row alone
    inText,      \* its input text
    fields,      \* parse_info's result
    row          \* build_csv_row's result

pipeVars == << pc, files, idx, output, tmpFiles, pdf, text, images, ocrText,
               rasterCalls, ocrCalls, parsed, raisedIn >>

fnVars == << fpc, inText, fields, row >>

vars == << pipeVars, fnVars >>

PipeInit ==
    /\ pc = "start"
    /\ files = << >>
    /\ idx = 0
    /\ output = << >>
    /\ tmpFiles = {}
    /\ pdf = NoPdf
    /\ text = << >>
    /\ images = << >>
    /\ ocrText = << >>
    /\ rasterCalls = 0
    /\ ocrCalls = << >>
    /\ parsed = << >>
    /\ raisedIn = "none"

FnIdle ==
    /\ fpc = "input"
    /\ inText = << >>
    /\ fields = << << >>, << >>, << >> >>
    /\ row = << >>

Init == PipeInit /\ FnIdle

\* An exception leaves process_pdfs: both with-blocks close their files and
\* nothing after them runs.
Raise(stage) ==
    /\ pc' = "raised"
    /\ raisedIn' = stage

(***************************************************************************)
(* process_pdfs, lines 114-129.                                            *)
(***************************************************************************)
\* Lines 116-119: the listing, the output file, the header row.
Start ==
    /\ pc = "start"
    /\ \E n \in 0..MaxDocs : files' = [i \in 1..n |-> i]
    /\ output' = writerow(<< >>, CSV_COLUMNS)
    /\ pc' = "loop"
    /\ UNCHANGED << idx, tmpFiles, pdf, text, images, ocrText, rasterCalls,
                    ocrCalls, parsed, raisedIn, fnVars >>

\* Lines 120-121: the next file, and its temporary file (delete=False).
\* The locals of the previous iteration are dead here (each is assigned
\* before it is next read) and are cleared, as are the call records.
NextFile ==
    /\ pc = "loop"
    /\ idx < Len(files)
    /\ idx' = idx + 1
    /\ tmpFiles' = tmpFiles \cup {idx + 1}
    /\ pdf' = NoPdf
    /\ text' = << >>
    /\ images' = << >>
    /\ ocrText' = << >>
    /\ rasterCalls' = 0
    /\ ocrCalls' = << >>
    /\ pc' = "download"
    /\ UNCHANGED << files, output, parsed, raisedIn, fnVars >>

\* Line 122: download_pdf returns.
DownloadOk ==
    /\ pc = "download"
    /\ \E d \in Pdfs : pdf' = d
    /\ pc' = "extract"
    /\ UNCHANGED << files, idx, output, tmpFiles, text, images, ocrText,
                    rasterCalls, ocrCalls, parsed, raisedIn, fnVars >>

\* Line 122: download_pdf raises.
DownloadRaises ==
    /\ pc = "download"
    /\ Raise("download")
    /\ UNCHANGED << files, idx, output, tmpFiles, pdf, text, images, ocrText,
                    rasterCalls, ocrCalls, parsed, fnVars >>

\* Lines 123-124.
Extract ==
    /\ pc = "extract"
    /\ text' = extract_text_from_pdf(pdf)
    /\ pc' = IF needs_ocr(text') THEN "rasterize" ELSE "parse"
    /\ UNCHANGED << files, idx, output, tmpFiles, pdf, images, ocrText,
                    rasterCalls, ocrCalls, parsed, raisedIn, fnVars >>

\* Line 125: pdf_to_images returns; ocr_images starts with text = ''.
RasterizeOk ==
    /\ pc = "rasterize"
    /\ rasterCalls' = rasterCalls + 1
    /\ images' = pdf_to_images(pdf)
    /\ ocrText' = << >>
    /\ pc' = "ocr"
    /\ UNCHANGED << files, idx, output, tmpFiles, pdf, text, ocrCalls, parsed,
                    raisedIn, fnVars >>

\* Line 125: convert_from_path raises.
RasterizeRaises ==
    /\ pc = "rasterize"
    /\ rasterCalls' = rasterCalls + 1
    /\ Raise("rasterize")
    /\ UNCHANGED << files, idx, output, tmpFiles, pdf, text, images, ocrText,
                    ocrCalls, parsed, fnVars >>

\* Lines 87-88: one iteration of ocr_images's loop.
OcrPage ==
    /\ pc = "ocr"
    /\ Len(ocrCalls) < Len(images)
    /\ ocrCalls' = Append(ocrCalls, images[Len(ocrCalls) + 1])
    /\ \E t \in OcrTexts : ocrText' = ocrText \o t \o << "\n" >>
    /\ UNCHANGED << pc, files, idx, output, tmpFiles, pdf, text, images,
                    rasterCalls, parsed, raisedIn, fnVars >>

\* Line 88: image_to_string raises.
OcrRaises ==
    /\ pc = "ocr"
    /\ Len(ocrCalls) < Len(images)
    /\ ocrCalls' = Append(ocrCalls, images[Len(ocrCalls) + 1])
    /\ Raise("ocr")
    /\ UNCHANGED << files, idx, output, tmpFiles, pdf, text, images, ocrText,
                    rasterCalls, parsed, fnVars >>

\* Lines 89 and 126: ocr_images returns its text.
OcrReturn ==
    /\ pc = "ocr"
    /\ Len(ocrCalls) = Len(images)
    /\ text' = ocrText
    /\ pc' = "parse"
    /\ UNCHANGED << files, idx, output, tmpFiles, pdf, images, ocrText,
                    rasterCalls, ocrCalls, parsed, raisedIn, fnVars >>

\* Lines 127-128: the row is written.
ParseAndWrite ==
    /\ pc = "parse"
    /\ LET info == parse_info(text)
       IN  /\ parsed' = Append(parsed, [doc |-> files[idx], info |-> info])
           /\ output' = writerow(output, build_csv_row(info[1], info[2], info[3]))
    /\ pc' = "unlink"
    /\ UNCHANGED << files, idx, tmpFiles, pdf, text, images, ocrText,
                    rasterCalls, ocrCalls, raisedIn, fnVars >>

\* Line 128: writerow raises.
WriteRaises ==
    /\ pc = "parse"
    /\ Raise("write")
    /\ UNCHANGED << files, idx, output, tmpFiles, pdf, text, images, ocrText,
                    rasterCalls, ocrCalls, parsed, fnVars >>

\* Line 129.
Unlink ==
    /\ pc = "unlink"
    /\ tmpFiles' = tmpFiles \ {idx}
    /\ pc' = "loop"
    /\ UNCHANGED << files, idx, output, pdf, text, images, ocrText,
                    rasterCalls, ocrCalls, parsed, raisedIn, fnVars >>

\* The loop of line 120 ends; process_pdfs returns.
Finish ==
    /\ pc = "loop"
    /\ idx = Len(files)
    /\ pc' = "done"
    /\ UNCHANGED << files, idx, output, tmpFiles, pdf, text, images, ocrText,
                    rasterCalls, ocrCalls, parsed, raisedIn, fnVars >>

Next ==
    \/ Start
    \/ NextFile
    \/ DownloadOk
    \/ DownloadRaises
    \/ Extract
    \/ RasterizeOk
    \/ RasterizeRaises
    \/ OcrPage
    \/ OcrRaises
    \/ OcrReturn
    \/ ParseAndWrite
    \/ WriteRaises
    \/ Unlink
    \/ Finish

Spec == Init /\ [][Next]_vars

(***************************************************************************)
(* parse_info and build_csv_row alone, on texts made of up to MaxTokens    *)
(* tokens.                                                                 *)
(***************************************************************************)
Tokens ==
    { << "1", "2", ",", "3", "4", "5" >>,
      << "1", ",", "2", "3", "4", ",", "5", "6", "7" >>,
      << "2", "0", "2", "4", "-", "0", "3", "-", "1", "5" >>,
      << "2", "0", "2", "4", "/", "3", "/", "1" >>,
      << "W", "W", "W", "W", "/", "W", "/", "W" >>,
      << "9" >>,
      << ",", "6", "7", "8" >>,
      << " " >>,
      << "\n" >>,
      << "A" >>,
      << "-" >> }

RECURSIVE TextsOf(_)
TextsOf(n) ==
    IF n = 0 THEN {<< >>}
    ELSE TextsOf(n - 1) \cup {t \o k : t \in TextsOf(n - 1), k \in Tokens}

Texts == TextsOf(MaxTokens)

FnInit ==
    /\ PipeInit
    /\ fpc = "input"
    /\ inText \in Texts
    /\ fields = << << >>, << >>, << >> >>
    /\ row = << >>

\* date, amount, partner = parse_info(text)
Parse ==
    /\ fpc = "input"
    /\ fields' = parse_info(inText)
    /\ fpc' = "parsed"
    /\ UNCHANGED << pipeVars, inText, row >>

\* build_csv_row(date, amount, partner)
Build ==
    /\ fpc = "parsed"
    /\ row' = build_csv_row(fields[1], fields[2], fields[3])
    /\ fpc' = "built"
    /\ UNCHANGED << pipeVars, inText, fields >>

FnNext ==
    \/ Parse
    \/ Build

FnSpec == FnInit /\ [][FnNext]_vars

(***************************************************************************)
(* Vocabulary of the properties.                                           *)
(***************************************************************************)
Terminated == pc \in {"done", "raised"}

InDocument == pc \in {"download", "extract", "rasterize", "ocr", "parse", "unlink"}

\* The pages the reader hands over before it fails, if it fails.
ReadablePages(d) ==
    IF d.failAt = -1 THEN 1..Len(d.pages) ELSE 1..(d.failAt - 1)

ReaderFails(d) == d.failAt # -1

\* Some page read gives text (a non-empty string).
HasTextLayer(d) == \E k \in ReadablePages(d) : d.pages[k] # << >>

\* Some page read gives text that is not only whitespace.
HasNonBlankTextLayer(d) ==
    \E k \in ReadablePages(d) :
        \E j \in 1..Len(d.pages[k]) : d.pages[k][j] \notin Whitespace

RECURSIVE Flatten(_)
Flatten(ss) == IF ss = << >> THEN << >> ELSE Head(ss) \o Flatten(Tail(ss))

\* The non-empty texts of the pages read, each followed by a line break.
LayerText(d) ==
    Flatten([k \in ReadablePages(d) |->
                IF d.pages[k] = << >> THEN << >> ELSE d.pages[k] \o << "\n" >>])

RowOf(info) == build_csv_row(info[1], info[2], info[3])

HasRow(i) ==
    \E k \in 1..Len(parsed) :
        /\ parsed[k].doc = files[i]
        /\ k + 1 <= Len(output)
        /\ output[k + 1] = RowOf(parsed[k].info)

Occurs(t, i, w) ==
    /\ i >= 1
    /\ i + Len(w) - 1 <= Len(t)
    /\ SubSeq(t, i, i + Len(w) - 1) = w

Contains(t, w) == \E i \in 1..Len(t) : Occurs(t, i, w)

HasAsciiDigit(t) == \E k \in 1..Len(t) : t[k] \in AsciiDigits

Numeral12345 == << "1", "2", ",", "3", "4", "5" >>
Digits12345 == << "1", "2", "3", "4", "5" >>
Numeral1234567 == << "1", ",", "2", "3", "4", ",", "5", "6", "7" >>
Digits1234567 == << "1", "2", "3", "4", "5", "6", "7" >>

\* w occurs in t with no ASCII digit before it and no further group of a
\* comma and three digits right after it.
IsFirstNumeral(t, w) ==
    \E i \in 1..Len(t) :
        /\ Occurs(t, i, w)
        /\ \A h \in 1..(i - 1) : t[h] \notin AsciiDigits
        /\ ~ ( /\ i + Len(w) + 3 <= Len(t)
               /\ t[i + Len(w)] = ","
               /\ \A k \in (i + Len(w) + 1)..(i + Len(w) + 3) : t[k] \in AsciiDigits )

\* s is YYYY sep M(M) sep D(D).
IsDateString(s) ==
    \E m \in 1..2, d \in 1..2 :
        /\ Len(s) = 6 + m + d
        /\ \A k \in 1..4 : s[k] \in UnicodeDigits
        /\ s[5] \in DateSeparators
        /\ \A k \in 6..(5 + m) : s[k] \in UnicodeDigits
        /\ s[6 + m] \in DateSeparators
        /\ \A k \in (7 + m)..(6 + m + d) : s[k] \in UnicodeDigits

DateMatches(t) ==
    {ij \in (1..Len(t)) \X (1..Len(t)) :
        ij[1] <= ij[2] /\ IsDateString(SubSeq(t, ij[1], ij[2]))}

\* The leftmost date in t, the longest that starts there; << >> if none.
FirstDate(t) ==
    IF DateMatches(t) = {} THEN << >>
    ELSE LET ij == CHOOSE a \in DateMatches(t) :
                       \A b \in DateMatches(t) :
                           a[1] < b[1] \/ (a[1] = b[1] /\ a[2] >= b[2])
         IN  SubSeq(t, ij[1], ij[2])

Slashed(d) == [k \in 1..Len(d) |-> IF d[k] = "-" THEN "/" ELSE d[k]]

(***************************************************************************)
(* Properties of process_pdfs (specification Spec).                        *)
(***************************************************************************)

\* C1: a rasterization failure on one document never aborts the batch: when
\* the run has ended and pdf_to_images raised for a document, every other
\* listed document has its row in the output.
C1_RasterFailureKeepsBatch ==
    (Terminated /\ raisedIn \in {"none", "rasterize"}) =>
        \A i \in 1..Len(files) :
            (raisedIn = "rasterize" /\ i = idx) \/ HasRow(i)

\* C2: the temporary file of a document is removed when its processing
\* cycle ends, whether it succeeds or fails: between documents and at the
\* end of any run no temporary file exists.
C2_TempFilesRemoved ==
    (pc = "loop" \/ Terminated) => tmpFiles = {}

\* C4 as stated: for a document whose text layer gives text from at least
\* one page, neither pdf_to_images nor OCR is ever invoked.
C4_NoOcrWhenTextNonEmpty ==
    HasTextLayer(pdf) => (rasterCalls = 0 /\ ocrCalls = << >>)

\* C4 as amended: for a document whose text layer gives text that is not
\* only whitespace from at least one page, neither pdf_to_images nor OCR is
\* ever invoked, and the row is built from the directly extracted text.
C4_NoOcrWhenTextNonBlank ==
    HasNonBlankTextLayer(pdf) =>
        /\ rasterCalls = 0
        /\ ocrCalls = << >>
        /\ pc \notin {"rasterize", "ocr"}
        /\ pc = "unlink" =>
              /\ parsed[Len(parsed)].info = parse_info(LayerText(pdf))
              /\ output[Len(output)] = RowOf(parse_info(LayerText(pdf)))

C4_Witness ==
    /\ pc = "unlink"
    /\ HasNonBlankTextLayer(pdf)
    /\ \E k \in ReadablePages(pdf) : pdf.pages[k] = << " " >>

\* C5: for a document whose direct extraction result is empty or whose
\* direct extraction fails, when the document is parsed it has been
\* rasterized and OCR has been invoked exactly once per page, in page
\* order, and the parsed text is the OCR output.
C5_OcrOncePerPageOnEmptyOrFailed ==
    (pc = "unlink" /\ (LayerText(pdf) = << >> \/ ReaderFails(pdf))) =>
        /\ rasterCalls = 1
        /\ ocrCalls = [k \in 1..Len(pdf.pages) |-> k]
        /\ text = ocrText
        /\ parsed[Len(parsed)].info = parse_info(ocrText)

\* C6: extract_text_from_pdf never propagates a reader failure, and
\* whenever the reader fails, on open or on any page, the returned text is
\* the empty string.
C6_ReaderFailureGivesEmptyText ==
    /\ raisedIn # "extract"
    /\ (pc \in {"rasterize", "parse"} /\ rasterCalls = 0 /\ ReaderFails(pdf)) =>
           text = << >>

\* C8: a run that completes has written the header first and then exactly
\* one row per listed document, the i-th data row built from the i-th
\* document; while a document is processed every earlier document is
\* fully processed (row written, temporary file removed).
C8_RowsInListingOrder ==
    /\ pc = "done" =>
          /\ Len(output) = 1 + Len(files)
          /\ Len(parsed) = Len(files)
          /\ output[1] = CSV_COLUMNS
          /\ \A i \in 1..Len(files) :
                /\ parsed[i].doc = files[i]
                /\ output[i + 1] = RowOf(parsed[i].info)
    /\ InDocument =>
          /\ Len(output) = (IF pc = "unlink" THEN idx + 1 ELSE idx)
          /\ Len(parsed) = Len(output) - 1
          /\ tmpFiles = {idx}
    /\ pc = "unlink" =>
          /\ parsed[idx] = [doc |-> files[idx], info |-> parse_info(text)]
          /\ output[idx + 1] = RowOf(parse_info(text))

C8_Witness ==
    /\ pc = "done"
    /\ Len(files) = 3
    /\ output[2] # output[3]
    /\ output[3] # output[4]

(***************************************************************************)
(* Properties of parse_info and build_csv_row (specification FnSpec).      *)
(***************************************************************************)

\* C3: the row has len(CSV_COLUMNS) cells; the (normalized) date is in the
\* cell labelled month_day, the amount in the cell labelled debit_amount,
\* the counterparty name in the cell labelled partner_name, and every
\* other cell is the empty string.
C3_RowPlacement ==
    fpc = "built" =>
        /\ Len(row) = Len(CSV_COLUMNS)
        /\ \A k \in 0..(Len(CSV_COLUMNS) - 1) :
              Cell(row, k) =
                  IF k = ColumnIndex(DateLabel) THEN Slashed(fields[1])
                  ELSE IF k = ColumnIndex(AmountLabel) THEN fields[2]
                  ELSE IF k = ColumnIndex(PartnerLabel) THEN fields[3]
                  ELSE << >>

\* C7 as stated: every text that contains "12,345" gives amount "12345",
\* every text that contains "1,234,567" gives amount "1234567", and the
\* amount never contains a comma.
C7_AmountOfAnyContainingText ==
    fpc # "input" =>
        /\ Contains(inText, Numeral12345) => fields[2] = Digits12345
        /\ Contains(inText, Numeral1234567) => fields[2] = Digits1234567
        /\ \A k \in 1..Len(fields[2]) : fields[2][k] # ","

\* C7 as amended: every text in which "12,345" (or "1,234,567") is the
\* first numeral, with no ASCII digit before it and no further comma and
\* three digits right after it, gives amount "12345" (or "1234567"); the
\* amount never contains a comma.
C7_AmountOfFirstNumeral ==
    fpc # "input" =>
        /\ IsFirstNumeral(inText, Numeral12345) => fields[2] = Digits12345
        /\ IsFirstNumeral(inText, Numeral1234567) => fields[2] = Digits1234567
        /\ \A k \in 1..Len(fields[2]) : fields[2][k] # ","

C7_Witness ==
    /\ fpc = "parsed"
    /\ IsFirstNumeral(inText, Numeral1234567)
    /\ inText[1] = "A"
    /\ Contains(inText, << "5", "6", "7", "9" >>)

\* C9: the date cell of the row is the first date-pattern match of the
\* text with every '-' replaced by '/' and nothing else changed; it never
\* contains '-'; "2024-03-15" gives "2024/03/15" and "2024/3/1" stays.
C9_DateCellNormalized ==
    fpc = "built" =>
        LET cell == Cell(row, ColumnIndex(DateLabel))
        IN  /\ cell = Slashed(FirstDate(inText))
            /\ \A k \in 1..Len(cell) : cell[k] # "-"
            /\ inText = << "2", "0", "2", "4", "-", "0", "3", "-", "1", "5" >> =>
                  cell = << "2", "0", "2", "4", "/", "0", "3", "/", "1", "5" >>
            /\ inText = << "2", "0", "2", "4", "/", "3", "/", "1" >> =>
                  cell = << "2", "0", "2", "4", "/", "3", "/", "1" >>

C9_Witness ==
    /\ fpc = "built"
    /\ \E k \in 1..Len(fields[1]) : fields[1][k] = "-"
    /\ inText[1] = "A"
    /\ Len(inText) > Len(fields[1]) + 1

\* C10: parse_info gives a result for every text (three empty fields for
\* the empty text), and each of date, amount and counterparty is empty
\* exactly when its own pattern has no match; a text with no numeral gives
\* an empty amount and an empty debit_amount cell in a row of full length.
C10_AbsentExactlyWhenNoMatch ==
    /\ fpc # "input" =>
          /\ inText = << >> => fields = << << >>, << >>, << >> >>
          /\ fields[1] = << >> <=> DateMatches(inText) = {}
          /\ fields[2] = << >> <=> ~ HasAsciiDigit(inText)
          /\ fields[3] = << >> <=> \A k \in 1..Len(inText) : inText[k] \in Whitespace
    /\ fpc = "built" =>
          /\ Len(row) = Len(CSV_COLUMNS)
          /\ ~ HasAsciiDigit(inText) => Cell(row, ColumnIndex(AmountLabel)) = << >>

C10_Witness ==
    /\ fpc = "built"
    /\ fields[1] # << >>
    /\ fields[2] = << >>
    /\ fields[3] # << >>
    /\ Cell(row, ColumnIndex(AmountLabel)) = << >>

====
